---- MODULE Spec2Model ----
(***************************************************************************)
(* useDebouncedMemo (src/src/index.ts): a React hook that shows a computed *)
(* value only after a quiet period.                                        *)
(*                                                                         *)
(* The hook is a state machine driven by the host (React and the timer     *)
(* API): the function body runs at every render, the effect callback and   *)
(* its cleanup run when React flushes passive effects (after the render    *)
(* was committed, and before the next render of the component), the        *)
(* setTimeout callback runs when the host timer expires, and the last      *)
(* cleanup runs at unmount.  Each of these is one action.                  *)
(***************************************************************************)
EXTENDS Integers, FiniteSets, Sequences, TLC

VARIABLES
  status,          \* "init" | "mounted" | "crashed" | "unmounted"
  debouncedValue,  \* the useState cell (index.ts:33), the value the hook returns
  timeoutRef,      \* timeoutRef.current (index.ts:39): Undefined or a timer id >= 1
  factoryRef,      \* factoryRef.current (index.ts:40,43)
  memoDeps,        \* the deps stored in the useMemo cell (index.ts:56)
  memoizedValue,   \* the value stored in the useMemo cell (index.ts:47)
  delay,           \* delay parsed by the last committed render (index.ts:29)
  lazy,            \* lazy parsed by the last committed render (index.ts:30)
  effectPending,   \* the last render scheduled the effect and it has not run yet
  effectMounted,   \* the effect ran at least once, so a cleanup exists
  timers,          \* the host's live timers: armed, not fired, not cleared
  nextId,          \* the id the host gives to the next setTimeout
  renders,         \* number of renders so far (the mount included)
  disposals,       \* history: number of times the last cleanup was executed
  burstLen,        \* history: snapshot changes observed since the last timer fire
  burstCalls,      \* history: factory invocations since the first of these changes
  disturbed,       \* history: a render whose effect has not run, or ran after
                   \*   the last timer fire, changed the policy, or the delay
                   \*   with the snapshot unchanged
  lastFactory,     \* history: the factory the caller passed to the last render
  swapped,         \* history: after the last run of the effect, a render passed
                   \*   another factory than the render before it
  ev               \* history: what the last step was

vars == <<status, debouncedValue, timeoutRef, factoryRef, memoDeps, memoizedValue,
          delay, lazy, effectPending, effectMounted, timers, nextId, renders,
          disposals, burstLen, burstCalls, disturbed, lastFactory, swapped, ev>>

(***************************************************************************)
(* Bounds and inputs                                                       *)
(***************************************************************************)
MaxDep == 1        \* snapshots (deps) are the tokens 0..MaxDep
MaxRenders == 4    \* renders after which the host stops re-rendering
MaxDisposals == 2  \* the cleanup is executed at most this many times

DefaultDelay == 300   \* index.ts:26, options = 300

Deps == 0..MaxDep
FnIds == {"f", "g", "h"}
\* A factory closure: the code fn of the function and the snapshot env it closes over.
Factories == [fn : FnIds, env : Deps]
Delays == {100, 0 - 50}
LazyFields == {"absent", "true", "false"}
\* The third argument of the hook: omitted, a bare number, or an options object.
OptionSet ==
  {[kind |-> "omitted", delay |-> 0, lazy |-> "absent"]}
    \cup {[kind |-> "number", delay |-> d, lazy |-> "absent"] : d \in Delays}
    \cup {[kind |-> "object", delay |-> d, lazy |-> l] : d \in Delays, l \in LazyFields}

\* The option forms a re-render is called with: one for each delay and policy
\* that OptionSet can select, every kind of option among them.
RenderOptions ==
  {o \in OptionSet :
     \/ o.kind = "omitted"
     \/ o.kind = "number" /\ o.delay > 0
     \/ o.kind = "object" /\ o.lazy = "true"
     \/ o.kind = "object" /\ o.lazy = "false" /\ o.delay < 0}

\* JavaScript's undefined: the initial timeoutRef.current, and no value at all.
Undefined == 0
NoFactory == [fn |-> "f", env |-> 0]

(***************************************************************************)
(* The caller's factory: f is injective in the snapshot, g gives the same  *)
(* output for the snapshots 2k and 2k+1, h throws on odd snapshots.        *)
(***************************************************************************)
Throws(fac) == fac.fn = "h" /\ fac.env % 2 = 1

Eval(fac) ==
  CASE fac.fn = "f" -> 10 + fac.env
    [] fac.fn = "g" -> 20 + (fac.env \div 2)
    [] OTHER -> 30 + fac.env

\* `{} as T` (index.ts:51): a fresh object at every evaluation; k numbers them.
Placeholder(k) == 0 - k
IsPlaceholder(v) == v < 0
FactoryOutputs == {Eval(fac) : fac \in {x \in Factories : ~Throws(x)}}

(***************************************************************************)
(* Option parsing, index.ts:26-30                                          *)
(***************************************************************************)
ParseDelay(o) == IF o.kind = "omitted" THEN DefaultDelay ELSE o.delay

\* Variant: every options object selects lazy, whatever its lazy field.
ParseLazyAnyObject(o) == o.kind = "object"

ParseLazy(o) == o.kind = "object" /\ o.lazy = "true"

(***************************************************************************)
(* factoryRef.current = factory, index.ts:43: the value of the ref after   *)
(* a render that was called with `factory`.                                *)
(***************************************************************************)
\* Variant: the ref keeps the factory of the first render (line 43 missing).
KeepFactoryRef(factory) == factoryRef

UpdateFactoryRef(factory) == factory

(***************************************************************************)
(* useState initializer, index.ts:33-37                                    *)
(***************************************************************************)
\* Variant: no initial computation in lazy mode (the comment at index.ts:34).
InitialValueUndefinedWhenLazy(factory, lz) ==
  IF lz THEN Undefined ELSE Eval(factory)

InitialValue(factory, lz) == Eval(factory)

(***************************************************************************)
(* useMemo, index.ts:47-56.  MemoFactory is the callback, DepsChanged the  *)
(* comparison of the dependency list with the one of the previous render.  *)
(***************************************************************************)
MemoFactory(factory, lz, k) ==
  IF lz
    THEN [value |-> Placeholder(k), calls |-> 0, threw |-> FALSE]
    ELSE IF Throws(factory)
      THEN [value |-> Undefined, calls |-> 1, threw |-> TRUE]
      ELSE [value |-> Eval(factory), calls |-> 1, threw |-> FALSE]

DepsChanged(prev, next) == prev # next

UseMemo(factory, d, lz, k) ==
  IF DepsChanged(memoDeps, d)
    THEN MemoFactory(factory, lz, k)
    ELSE [value |-> memoizedValue, calls |-> 0, threw |-> FALSE]

(***************************************************************************)
(* The state cell after a render whose useMemo result is m: the render     *)
(* reads the cell (index.ts:33) and returns it (index.ts:80);              *)
(* setDebouncedValue is called in the timer callback only.                 *)
(***************************************************************************)
\* Variant: the render shows the memoized value at once.
RenderShowsMemoized(m) == m.value

RenderedValue(m) == debouncedValue

(***************************************************************************)
(* useEffect dependency list [memoizedValue, delay, lazy], index.ts:78     *)
(***************************************************************************)
\* Variant: the effect has no dependency list and runs after every render.
EffectRunsAlways(prev, next) == TRUE

EffectDepsChanged(prev, next) == prev # next

(***************************************************************************)
(* Host timers: setTimeout(cb, d) waits 0 ms when d is negative;           *)
(* clearTimeout of an id that is not live does nothing.                    *)
(***************************************************************************)
ClampDelay(d) == IF d < 0 THEN 0 ELSE d

ClearTimeout(ts, id) == {t \in ts : t.id # id}

\* Variant: the stored timer is never cleared.
ClearNothing(ts) == ts

\* index.ts:59-61 and index.ts:74-76: if (timeoutRef.current) clearTimeout(...)
ClearIfSet(ts) == IF timeoutRef # Undefined THEN ClearTimeout(ts, timeoutRef) ELSE ts

\* Variant: the effect returns no cleanup.
CleanupKeepsTimer(ts) == ts

\* The cleanup returned by the effect, index.ts:73-77.
Cleanup(ts) == ClearIfSet(ts)

\* The closure handed to setTimeout (index.ts:63-71) with what it captured
\* from the render it belongs to, lazy and memoizedValue, and the delay
\* setTimeout was called with.
NewTimer(id) ==
  [id |-> id, delay |-> delay, lazy |-> lazy, memo |-> memoizedValue]

\* The time the host waits before it runs the callback of timer t.
EffectiveDelay(t) == ClampDelay(t.delay)

\* The effect body, index.ts:59-71: the live timers after it ran.
EffectBody(ts, id) == ClearIfSet(ts) \cup {NewTimer(id)}

(***************************************************************************)
(* The setTimeout callback, index.ts:63-71                                 *)
(***************************************************************************)
TimerCallback(t) ==
  IF t.lazy
    THEN IF Throws(factoryRef)
      THEN [commit |-> FALSE, value |-> debouncedValue, calls |-> 1, threw |-> TRUE]
      ELSE [commit |-> TRUE, value |-> Eval(factoryRef), calls |-> 1,
            threw |-> FALSE]
    ELSE [commit |-> TRUE, value |-> t.memo, calls |-> 0, threw |-> FALSE]

(***************************************************************************)
(* History record of the last step.  kind: the step; depsChanged,          *)
(* delayChanged, lazyChanged: what the last render saw change; threw: the  *)
(* factory threw in the step; called: factory invocations in the step;     *)
(* commit: setDebouncedValue was called in the step; isLazy: the policy of *)
(* the render, or the one the fired timer captured; swapped: for a render, *)
(* it passed another factory than the render before it, for a fire, the    *)
(* history variable swapped.  For a fire, burst, burstCalls and disturbed  *)
(* are the history of the burst it ends (burstCalls with the invocations   *)
(* of the fire itself).  cancelled: the number of live timers the step     *)
(* cancelled; opt: the option a render was called with.                    *)
(***************************************************************************)
NoEv ==
  [kind |-> "none", depsChanged |-> FALSE, delayChanged |-> FALSE,
   lazyChanged |-> FALSE, threw |-> FALSE, called |-> 0, commit |-> FALSE,
   isLazy |-> FALSE, swapped |-> FALSE, burst |-> 0, burstCalls |-> 0,
   disturbed |-> FALSE, cancelled |-> 0,
   opt |-> [kind |-> "none", delay |-> 0, lazy |-> "absent"]]

(***************************************************************************)
(* Init: the component is about to be mounted.                             *)
(***************************************************************************)
Init ==
  /\ status = "init"
  /\ debouncedValue = Undefined
  /\ timeoutRef = Undefined
  /\ factoryRef = NoFactory
  /\ memoDeps = 0
  /\ memoizedValue = Undefined
  /\ delay = DefaultDelay
  /\ lazy = FALSE
  /\ effectPending = FALSE
  /\ effectMounted = FALSE
  /\ timers = {}
  /\ nextId = 1
  /\ renders = 0
  /\ disposals = 0
  /\ burstLen = 0
  /\ burstCalls = 0
  /\ disturbed = FALSE
  /\ lastFactory = NoFactory
  /\ swapped = FALSE
  /\ ev = NoEv

(***************************************************************************)
(* Mount: the first render, index.ts:23-80.  useState runs its initializer *)
(* and useMemo its callback; the effect is scheduled.  A factory that      *)
(* throws aborts the mount.                                                *)
(***************************************************************************)
Mount(fn, d, o) ==
  LET factory == [fn |-> fn, env |-> d]
      dl == ParseDelay(o)
      lz == ParseLazy(o)
      m == MemoFactory(factory, lz, 1)
  IN
  /\ status = "init"
  /\ renders' = 1
  /\ factoryRef' = factory
  /\ lastFactory' = factory
  /\ IF Throws(factory)
       THEN /\ status' = "crashed"
            /\ ev' = [NoEv EXCEPT !.kind = "mount", !.threw = TRUE, !.called = 1,
                                    !.isLazy = lz, !.opt = o]
            /\ UNCHANGED <<debouncedValue, memoDeps, memoizedValue, delay, lazy,
                           effectPending>>
       ELSE /\ status' = "mounted"
            /\ debouncedValue' = InitialValue(factory, lz)
            /\ memoDeps' = d
            /\ memoizedValue' = m.value
            /\ delay' = dl
            /\ lazy' = lz
            /\ effectPending' = TRUE
            /\ ev' = [NoEv EXCEPT !.kind = "mount", !.called = 1 + m.calls,
                                    !.isLazy = lz, !.opt = o]
  /\ UNCHANGED <<timeoutRef, effectMounted, timers, nextId, disposals, burstLen,
                 burstCalls, disturbed, swapped>>

(***************************************************************************)
(* Render: a re-render of the mounted component, index.ts:23-80, with the  *)
(* factory, the deps and the options the caller passes this time.  React   *)
(* has flushed the effects of the previous render before it renders again. *)
(* A factory that throws in useMemo aborts the render: the hook cells keep *)
(* their values, the ref written at index.ts:43 keeps the new factory.     *)
(***************************************************************************)
Render(fn, d, o) ==
  LET factory == [fn |-> fn, env |-> d]
      dl == ParseDelay(o)
      lz == ParseLazy(o)
      dc == DepsChanged(memoDeps, d)
      m == UseMemo(factory, d, lz, renders + 1)
      lc == dl # delay
      yc == lz # lazy
  IN
  /\ status = "mounted"
  /\ ~effectPending
  /\ renders < MaxRenders
  /\ renders' = renders + 1
  /\ factoryRef' = UpdateFactoryRef(factory)
  /\ lastFactory' = factory
  /\ swapped' = (swapped \/ factory # lastFactory)
  /\ ev' = [NoEv EXCEPT !.kind = "render", !.depsChanged = dc, !.delayChanged = lc,
                         !.lazyChanged = yc, !.threw = m.threw, !.called = m.calls,
                         !.isLazy = lz, !.swapped = (factory # lastFactory),
                         !.opt = o]
  /\ IF m.threw
       THEN /\ status' = "crashed"
            /\ UNCHANGED <<memoDeps, memoizedValue, delay, lazy, effectPending,
                           burstLen, burstCalls, disturbed>>
       ELSE /\ status' = status
            /\ memoDeps' = d
            /\ memoizedValue' = m.value
            /\ delay' = dl
            /\ lazy' = lz
            /\ effectPending' =
                 EffectDepsChanged(<<memoizedValue, delay, lazy>>, <<m.value, dl, lz>>)
            /\ burstLen' = IF dc THEN burstLen + 1 ELSE burstLen
            /\ burstCalls' = burstCalls + m.calls
            /\ disturbed' = (disturbed \/ yc \/ (~dc /\ lc))
  /\ debouncedValue' = RenderedValue(m)
  /\ UNCHANGED <<timeoutRef, effectMounted, timers, nextId, disposals>>

(***************************************************************************)
(* FlushEffects: React runs the cleanup of the previous effect (if any)    *)
(* and then the effect of the last render, index.ts:58-78.                 *)
(***************************************************************************)
FlushEffects ==
  /\ status = "mounted"
  /\ effectPending
  /\ timers' = EffectBody(IF effectMounted THEN Cleanup(timers) ELSE timers, nextId)
  /\ timeoutRef' = nextId
  /\ nextId' = nextId + 1
  /\ effectPending' = FALSE
  /\ effectMounted' = TRUE
  /\ swapped' = FALSE
  /\ ev' = [NoEv EXCEPT !.kind = "effect", !.depsChanged = ev.depsChanged,
                         !.delayChanged = ev.delayChanged,
                         !.lazyChanged = ev.lazyChanged, !.isLazy = lazy,
                         !.cancelled = Cardinality(timers \ timers')]
  /\ UNCHANGED <<status, debouncedValue, factoryRef, memoDeps, memoizedValue, delay,
                 lazy, renders, disposals, burstLen, burstCalls, disturbed,
                 lastFactory>>

(***************************************************************************)
(* TimerFire: the host runs the callback of a live timer, index.ts:63-71,  *)
(* whatever became of the component: also after a render threw and before  *)
(* the cleanup has run.  React drops a state update of a component that is *)
(* no longer mounted.                                                      *)
(***************************************************************************)
TimerFire(t) ==
  LET r == TimerCallback(t) IN
  /\ t \in timers
  /\ status \in {"mounted", "crashed", "unmounted"}
  /\ timers' = timers \ {t}
  /\ debouncedValue' = IF r.commit /\ status = "mounted" THEN r.value
                       ELSE debouncedValue
  /\ burstLen' = 0
  /\ burstCalls' = 0
  /\ disturbed' = (effectPending /\ disturbed)
  /\ ev' = [NoEv EXCEPT !.kind = "fire", !.threw = r.threw, !.called = r.calls,
                         !.commit = r.commit, !.isLazy = t.lazy,
                         !.swapped = swapped, !.burst = burstLen,
                         !.burstCalls = burstCalls + r.calls,
                         !.disturbed = disturbed]
  /\ UNCHANGED <<status, timeoutRef, factoryRef, memoDeps, memoizedValue, delay,
                 lazy, effectPending, effectMounted, nextId, renders, disposals,
                 lastFactory, swapped>>

(***************************************************************************)
(* Dispose: the cleanup of the last effect, index.ts:73-77, run by React   *)
(* when the component is unmounted (also after a render threw), and run    *)
(* once more to exercise its idempotence.                                  *)
(***************************************************************************)
Dispose ==
  /\ \/ status = "mounted" /\ ~effectPending
     \/ status = "crashed"
     \/ status = "unmounted"
  /\ disposals < MaxDisposals
  /\ status' = "unmounted"
  /\ timers' = IF effectMounted THEN Cleanup(timers) ELSE timers
  /\ disposals' = disposals + 1
  /\ ev' = [NoEv EXCEPT !.kind = "dispose",
                         !.cancelled = Cardinality(timers \ timers')]
  /\ UNCHANGED <<debouncedValue, timeoutRef, factoryRef, memoDeps, memoizedValue,
                 delay, lazy, effectPending, effectMounted, nextId, renders,
                 burstLen, burstCalls, disturbed, lastFactory, swapped>>

Next ==
  \/ \E fn \in FnIds, d \in Deps, o \in OptionSet : Mount(fn, d, o)
  \/ \E fn \in FnIds, d \in Deps, o \in RenderOptions : Render(fn, d, o)
  \/ FlushEffects
  \/ \E t \in timers : TimerFire(t)
  \/ Dispose

Spec == Init /\ [][Next]_vars

\* The host's scheduling: React flushes a scheduled effect, and an armed timer
\* that is not cleared expires.
LiveSpec ==
  /\ Init
  /\ [][Next]_vars
  /\ WF_vars(FlushEffects)
  /\ WF_vars(\E t \in timers : TimerFire(t))

(***************************************************************************)
(* Claims                                                                  *)
(***************************************************************************)
Mounted == status = "mounted"
Idle == timers = {} /\ ~effectPending
NoChangeRender(e) ==
  e.kind = "render" /\ ~e.depsChanged /\ ~e.delayChanged /\ ~e.lazyChanged
DelayOnly(e) == ~e.depsChanged /\ e.delayChanged /\ ~e.lazyChanged

\* C1 Debounce collapsing: when a commit ends a burst of snapshot changes,
\* none of which was separated from the next by a timer fire, it is the only
\* commit of the burst and comes after its last change: nothing is pending
\* after it, and in eager mode the committed value is the one computed at the
\* last change.
C1_DebounceCollapsing ==
  (Mounted /\ ev.kind = "fire" /\ ev.commit /\ ev.burst >= 1 /\ ~ev.disturbed)
    => /\ Idle
       /\ ~ev.isLazy => debouncedValue = memoizedValue

\* C2 Lazy deferral: a render in lazy mode never invokes the factory, and the
\* fire that ends a burst of three snapshot changes in lazy mode is the only
\* factory invocation since the burst began, with nothing pending after it.
C2_LazyDeferral ==
  /\ (ev.kind = "render" /\ ev.isLazy) => ev.called = 0
  /\ (Mounted /\ ev.kind = "fire" /\ ev.isLazy /\ ev.burst = 3 /\ ~ev.disturbed)
       => (ev.burstCalls = 1 /\ Idle)

\* C3 Stale-closure immunity: a lazy timer fire invokes the factory passed to
\* the most recent render, and commits its result (or, if it throws, commits
\* nothing), whatever factory was current when the timer was armed.
C3_StaleClosureImmunity ==
  [][(Mounted /\ ev'.kind = "fire" /\ ev'.isLazy)
       => IF Throws(lastFactory)
            THEN ev'.threw /\ ~ev'.commit /\ debouncedValue' = debouncedValue
            ELSE ev'.commit /\ debouncedValue' = Eval(lastFactory)]_vars

\* A lazy fire committed after a render had swapped the factory under the
\* armed timer.
C3_Witness ==
  Mounted /\ ev.kind = "fire" /\ ev.isLazy /\ ev.commit /\ ev.swapped

\* C4 Initial value: right after the first render, in eager and in lazy mode,
\* the hook returns the factory's result; no timer has been armed for it.
C4_InitialValue ==
  (Mounted /\ ev.kind = "mount")
    => (debouncedValue = Eval(lastFactory) /\ timers = {} /\ timeoutRef = Undefined)

\* The state after a first render in lazy mode.
C4_Witness == Mounted /\ ev.kind = "mount" /\ lazy

\* C5 Eager computation: a render in eager mode invokes the factory once if
\* the snapshot changed and not at all otherwise, holds the result in the
\* useMemo cell and leaves the visible value alone; the fire of an eager timer
\* invokes the factory zero times and commits the held result of the last
\* change.
C5_EagerComputation ==
  [][/\ (ev'.kind = "render" /\ ~ev'.isLazy)
          => /\ ev'.called = (IF ev'.depsChanged THEN 1 ELSE 0)
             /\ debouncedValue' = debouncedValue
             /\ (ev'.depsChanged /\ ~ev'.threw)
                  => memoizedValue' = Eval(lastFactory')
     /\ (Mounted /\ ev'.kind = "fire" /\ ~ev'.isLazy)
          => /\ ev'.called = 0
             /\ ev'.commit
             /\ debouncedValue' = memoizedValue]_vars

\* C6 No-op idempotence: a render with unchanged snapshot, delay and policy
\* (whatever the factory) cancels no timer, arms none, schedules no effect,
\* does not invoke the factory and leaves the committed value alone.
C6_NoOpIdempotence ==
  [][NoChangeRender(ev')
       => /\ timers' = timers
          /\ timeoutRef' = timeoutRef
          /\ nextId' = nextId
          /\ ~effectPending'
          /\ ev'.called = 0
          /\ debouncedValue' = debouncedValue
          /\ memoizedValue' = memoizedValue]_vars

\* A render that changed nothing but the factory, while a timer was pending.
C6_Witness == NoChangeRender(ev) /\ ev.swapped /\ timers # {}

\* C7 Disposal: once the cleanup has run no timer is live, so that no timer
\* fires and the visible value never changes again; the cleanup can run again.
C7_Disposal ==
  [][/\ status' = "unmounted" => timers' = {}
     /\ status = "unmounted"
          => (ev'.kind = "dispose" /\ debouncedValue' = debouncedValue)]_vars

\* The cleanup ran twice on a component that had armed a timer.
C7_Witness ==
  status = "unmounted" /\ disposals = 2 /\ timeoutRef # Undefined
    /\ ev.kind = "dispose"

\* C8 Eventual update: a snapshot change followed by no further change is
\* followed by a timer fire that shows the value for the latest snapshot.  So,
\* right after a render that observed a snapshot change, a timer is live or
\* the effect that arms one is scheduled (nothing else can make a timer fire
\* without a further change); and a fire that ends a burst of snapshot changes
\* and leaves nothing pending, no render of the burst having changed the
\* policy, or the delay alone, shows the value for the latest snapshot (in
\* eager mode the value held since the last change, in lazy mode the result of
\* the current factory, if it has one), a value the factory returned.
C8_EventualUpdate ==
  /\ (Mounted /\ ev.kind = "render" /\ ev.depsChanged)
       => (effectPending \/ timers # {})
  /\ (Mounted /\ Idle /\ ev.kind = "fire" /\ ev.burst >= 1 /\ ~ev.disturbed
        /\ ~ev.threw)
       => /\ ev.commit
          /\ debouncedValue \in FactoryOutputs
          /\ debouncedValue = (IF ev.isLazy THEN Eval(lastFactory) ELSE memoizedValue)

\* C9 Delay-only change: a render that changes the delay and nothing else
\* invokes no factory and keeps the held value, and schedules the effect; the
\* timer that was pending at that render is cancelled, so it does not fire;
\* and the effect leaves exactly one live timer, a new one, armed with the new
\* delay and capturing the held value.
C9_DelayOnlyChange ==
  [][/\ (ev'.kind = "render" /\ DelayOnly(ev'))
          => /\ ev'.called = 0
             /\ memoizedValue' = memoizedValue
             /\ debouncedValue' = debouncedValue
             /\ effectPending'
     /\ (Mounted /\ ev.kind = "render" /\ DelayOnly(ev)) => ev'.kind # "fire"
     /\ (ev'.kind = "effect" /\ DelayOnly(ev'))
          => \E t \in timers' :
               /\ timers' = {t}
               /\ t.id = timeoutRef'
               /\ \A u \in timers : u.id # t.id
               /\ t.delay = delay
               /\ t.memo = memoizedValue
               /\ t.lazy = lazy]_vars

\* C10 Factory failure: a step in which the factory throws (a render in
\* eager mode, a lazy timer fire) invokes it once, commits nothing, leaves the
\* visible value as it was, and arms no timer and schedules no effect; and the
\* step after it invokes the factory only if it is a render that observes a
\* change of the snapshot or of the delay.
C10_FactoryFailure ==
  [][/\ (ev'.threw /\ ev'.kind \in {"render", "fire"})
          => /\ ev'.called = 1
             /\ ~ev'.commit
             /\ debouncedValue' = debouncedValue
             /\ timers' \subseteq timers
             /\ effectPending' = effectPending
             /\ ev'.kind = "render" => status' = "crashed"
     /\ (ev.threw /\ ev.kind \in {"render", "fire"} /\ ev'.called > 0)
          => (ev'.kind = "render" /\ (ev'.depsChanged \/ ev'.delayChanged))]_vars

\* C11 Misuse fails fast: a negative delay is rejected with an error by the
\* render that receives it: it is never the delay of a mounted component, no
\* timer is armed with it, and the host never turns it into a wait of 0 ms.
C11_MisuseFailsFast ==
  /\ Mounted => delay >= 0
  /\ \A t \in timers : ~(t.delay < 0 /\ EffectiveDelay(t) >= 0)

\* What the documented option forms select: a bare number n is delay n and
\* eager; an object is its delay, and lazy exactly when its lazy field is
\* true; an omitted option is delay 300 and eager.
C12_Selected(o) ==
  CASE o.kind = "number" -> <<o.delay, FALSE>>
    [] o.kind = "object" -> <<o.delay, o.lazy = "true">>
    [] OTHER -> <<300, FALSE>>

\* C12 Option parsing: every first render and every re-render that is not
\* aborted leaves the component with the delay and the policy that the option
\* it was called with selects.
C12_OptionParsing ==
  (Mounted /\ ev.kind \in {"mount", "render"})
    => <<delay, lazy>> = C12_Selected(ev.opt)

\* A re-render with the option omitted, after the component had been lazy
\* (an options object whose lazy field is true) with another delay.
C12_Witness ==
  Mounted /\ ev.kind = "render" /\ ev.opt.kind = "omitted" /\ ev.lazyChanged
    /\ ev.delayChanged /\ delay = 300 /\ ~lazy

\* C13 At most one live timer: in every state at most one timer is live, it
\* is the one the stored handle names, and the effect leaves exactly the timer
\* it arms, every timer that was live before it being cancelled.
C13_AtMostOneLiveTimer ==
  /\ Cardinality(timers) <= 1
  /\ \A t \in timers : t.id = timeoutRef
  /\ ev.kind = "effect" => Cardinality(timers) = 1

\* The effect armed a timer after it cancelled one that was still live.
C13_Witness ==
  Mounted /\ ev.kind = "effect" /\ ev.cancelled = 1 /\ Cardinality(timers) = 1

\* C14 Only the most recent timer commits: once a render has observed a
\* snapshot change, a timer armed before that render never commits, also when
\* it expires between that render and the effect that would cancel it.
C14_OnlyMostRecentTimerCommits ==
  [][(Mounted /\ ev.kind = "render" /\ ev.depsChanged /\ ev'.kind = "fire")
       => ~ev'.commit]_vars

\* C15 Every snapshot change restarts the debounce window: a render that
\* observes a snapshot change, in eager and in lazy mode and whatever the
\* factory returns, schedules the effect that cancels the pending timer and
\* arms a new one for the current delay.
C15_SnapshotChangeRestarts ==
  [][(Mounted /\ ev'.kind = "render" /\ ev'.depsChanged /\ ~ev'.threw)
       => effectPending']_vars

\* C16 Construction arms no timer: after the first render and its effect no
\* timer is live, and as long as no re-render happened there is no timer fire.
C16_ConstructionArmsNoTimer ==
  /\ (Mounted /\ renders = 1 /\ ~effectPending) => timers = {}
  /\ ev.kind = "fire" => renders > 1

\* C17 Construction invokes the factory exactly once: the first render, in
\* eager and in lazy mode, calls the factory one time, and the result of that
\* call is the initial visible value.
C17_ConstructionInvokesOnce ==
  ev.kind = "mount"
    => /\ ev.called = 1
       /\ Mounted => debouncedValue = Eval(lastFactory)

\* C18 Commits happen only in timer fires: after construction the visible
\* value changes only in a timer fire that commits; a render (with a changed
\* snapshot, delay or policy, an eager precomputation, another factory), the
\* effect and the cleanup leave it as it was.
C18_CommitsOnlyInTimerFires ==
  [][status # "init"
       => /\ debouncedValue' # debouncedValue => (ev'.kind = "fire" /\ ev'.commit)
          /\ ev'.kind \in {"render", "effect", "dispose"}
               => debouncedValue' = debouncedValue]_vars

\* An eager render that changed snapshot, delay and policy and swapped the
\* factory: it precomputed a value that is not the visible one.
C18_Witness ==
  /\ Mounted /\ ev.kind = "render" /\ ev.depsChanged /\ ev.delayChanged
  /\ ev.lazyChanged /\ ev.swapped /\ ~ev.isLazy /\ ev.called = 1
  /\ debouncedValue # memoizedValue

\* C19 The committed value is always a factory result: the visible value of a
\* mounted component is a value some invocation of the factory returned, never
\* the placeholder of lazy mode, also after the policy was switched with the
\* snapshot unchanged.
C19_CommittedIsFactoryResult ==
  Mounted => (debouncedValue \in FactoryOutputs /\ ~IsPlaceholder(debouncedValue))

\* C20 Timer handle cleared on fire: the stored handle is set exactly when a
\* timer is live, so that a fire resets it and a cancellation only ever
\* targets a live timer.
C20_HandleClearedOnFire ==
  /\ (timeoutRef # Undefined) <=> (timers # {})
  /\ ev.kind = "fire" => timeoutRef = Undefined

====
